---- MODULE Spec2Model ----
(***************************************************************************)
(* Model of the particle-flow reconstruction processors of                 *)
(* Modified_LDMX_SW_Code:                                                  *)
(*   - recon::PFTrackProducer (PFTrackProducer.cxx): configure and         *)
(*     produce, with the event store (exists / getCollection / add) as     *)
(*     the framework service the processor calls;                          *)
(*   - recon::ParticleFlow (ParticleFlow.h declares it; its produce body   *)
(*     is taken from section 4.2 of the design document).                  *)
(*                                                                         *)
(* Lengths are in hundredths of a length unit (240 -> 24000, 0.1 -> 10),   *)
(* so that the comparisons of produce are exact integer comparisons.       *)
(***************************************************************************)
EXTENDS Integers, Sequences, FiniteSets

VARIABLES
    pc,                    \* lifecycle of the PFTrackProducer: constructed / configured / done
    inputTrackCollName_,   \* PFTrackProducer members set by configure
    input_pass_name_,
    outputTrackCollName_,
    truthTracking_,        \* member tested at line 31; configure never assigns it
    sortSwapsTies,         \* what the build's std::sort does with equivalent elements
    event,                 \* framework::Event: collection name -> stored collection
    log,                   \* severities written with ldmx_log
    reads,                 \* <<name, pass>> of every getCollection call, in order
    outcome,               \* how produce ended: none / returned / published / threw
    pushed,                \* what each selection loop pushed onto pfTracks
    firstRun,              \* result of the previous run of the job on the same input
    pfInput,               \* ParticleFlow: the three input collections and thresholds
    pfCands,               \* ParticleFlow: the emitted PFCandidate collection
    pfDone                 \* ParticleFlow: produce has run

vars == <<pc, inputTrackCollName_, input_pass_name_, outputTrackCollName_,
          truthTracking_, sortSwapsTies, event, log, reads, outcome, pushed,
          firstRun, pfInput, pfCands, pfDone>>

tsVars == <<pc, inputTrackCollName_, input_pass_name_, outputTrackCollName_,
            truthTracking_, sortSwapsTies, event, log, reads, outcome, pushed,
            firstRun>>

pfVars == <<pfInput, pfCands, pfDone>>

-----------------------------------------------------------------------------
(* Bounds of the model *)

\* total number of scoring-plane hits in one event (both regions together)
MaxHits == 3

-----------------------------------------------------------------------------
(* Constants of PFTrackProducer::produce *)

PrimaryTrackID == 1        \* spHit.getTrackID() != 1
ScoringPlaneZ == 24000     \* 240, in hundredths
ZTolerance == 10           \* 0.1, in hundredths
PhotonPdg == 22
NeutronPdg == 2112

HcalCollName == "HcalScoringPlaneHits"

-----------------------------------------------------------------------------
(* ldmx::SimTrackerHit: the attributes produce reads *)

SimTrackerHit(id, z, p, pdg) ==
    [trackID |-> id, z |-> z, momentum |-> p, pdgID |-> pdg]

\* The hits the events are built from: three hits that pass every filter
\* (two of them with the same momentum magnitude 5, one with magnitude 2,
\* two of them on the edges 239.9 and 240.1 of the accepted z window), and
\* one hit for every way of failing exactly one condition.
HitA  == SimTrackerHit(1, 24005, <<0, 0, 5>>, 11)
HitA2 == SimTrackerHit(1, 23990, <<3, 0, 4>>, 211)
HitG  == SimTrackerHit(1, 24010, <<0, 0, 2>>, -11)
HitB  == SimTrackerHit(2, 24005, <<0, 0, 5>>, 11)
HitZ  == SimTrackerHit(1, 24011, <<0, 0, 5>>, 11)
HitP  == SimTrackerHit(1, 24005, <<3, 4, 0>>, 11)
HitC  == SimTrackerHit(1, 24005, <<0, 0, 5>>, 22)
HitN  == SimTrackerHit(1, 24005, <<0, 0, 9>>, 2112)

Hits == {HitA, HitA2, HitG, HitB, HitZ, HitP, HitC, HitN}

SeqsUpTo(S, n) == UNION {[1..k -> S] : k \in 0..n}

-----------------------------------------------------------------------------
(* framework::Event, as far as produce uses it *)

InputNames == {"EcalScoringPlaneHits"}
OutputNames == {"PFTracks"}
CollNames == InputNames \cup {HcalCollName} \cup OutputNames
SimPass == "sim"           \* pass that wrote the scoring-plane hits
ThisPass == "recon"        \* pass of the running process
PassNames == {"sim"}

Absent == [present |-> FALSE, pass |-> "", hits |-> <<>>]
Stored(pass, hits) == [present |-> TRUE, pass |-> pass, hits |-> hits]

\* event.exists(name): a collection of that name, of any pass
exists(ev, name) == ev[name].present

\* found by event.getCollection(name, pass); the hits of an event are all
\* stored under the pass the processor is configured to read
Readable(ev, name, pass) == ev[name].present /\ ev[name].pass = pass

\* event.getCollection(name, pass): the outcomes the event store can give.
\* The store is a framework service: for a collection it does not hold under
\* that name and pass it raises an exception or hands back an empty
\* collection; which one is the store's choice, not the processor's.
Throws == [threw |-> TRUE, hits |-> <<>>]
Returns(hits) == [threw |-> FALSE, hits |-> hits]

getCollection(ev, name, pass) ==
    IF Readable(ev, name, pass)
    THEN {Returns(ev[name].hits)}
    ELSE {Throws, Returns(<<>>)}

\* event.add(name, coll)
add(ev, name, coll) == [ev EXCEPT ![name] = Stored(ThisPass, coll)]

-----------------------------------------------------------------------------
(* getP, lines 14-17.  getP returns sqrt(px^2 + py^2 + pz^2); the model     *)
(* keeps the radicand, and compares radicands where the code compares       *)
(* roots (sqrt is strictly increasing on the non-negative numbers).         *)

getP2(tk) ==
    LET pxyz == tk.momentum
    IN pxyz[1] * pxyz[1] + pxyz[2] * pxyz[2] + pxyz[3] * pxyz[3]

\* the comparator of line 52: getP(a) > getP(b)
sortComp(a, b) == getP2(a) > getP2(b)

Abs(x) == IF x < 0 THEN -x ELSE x

\* lines 33-34 / 42-43: the first `continue`
failsKinematics(spHit) ==
    \/ spHit.trackID # PrimaryTrackID
    \/ Abs(ScoringPlaneZ - spHit.z) > ZTolerance
    \/ spHit.momentum[3] <= 0

\* line 36 / 45: the second `continue`
\* (variant: the neutron test left out)
failsSpeciesPhotonOnly(spHit) ==
    spHit.pdgID = PhotonPdg

failsSpecies(spHit) ==
    spHit.pdgID = PhotonPdg \/ spHit.pdgID = NeutronPdg

\* One range-for loop of lines 32-39 / 41-48 over `hits`, pushing onto
\* pfTracks: skip (continue) the hits that fail, push the first that does
\* not and leave the loop (break).
\* (variant: the loop without its break)
RECURSIVE selectLoopNoBreak(_, _)
selectLoopNoBreak(hits, pfTracks) ==
    IF hits = <<>> THEN pfTracks
    ELSE LET spHit == Head(hits)
         IN IF failsKinematics(spHit) \/ failsSpecies(spHit)
            THEN selectLoopNoBreak(Tail(hits), pfTracks)
            ELSE selectLoopNoBreak(Tail(hits), Append(pfTracks, spHit))

\* (variant: break where the loop has continue)
selectLoopStopsAtReject(hits, pfTracks) ==
    IF hits = <<>> THEN pfTracks
    ELSE LET spHit == Head(hits)
         IN IF failsKinematics(spHit) \/ failsSpecies(spHit)
            THEN pfTracks
            ELSE Append(pfTracks, spHit)

RECURSIVE selectLoop(_, _)
selectLoop(hits, pfTracks) ==
    IF hits = <<>> THEN pfTracks
    ELSE LET spHit == Head(hits)
         IN IF failsKinematics(spHit) THEN selectLoop(Tail(hits), pfTracks)
            ELSE IF failsSpecies(spHit) THEN selectLoop(Tail(hits), pfTracks)
            ELSE Append(pfTracks, spHit)

\* std::sort(first, last, comp), lines 50-53.  The result is ordered by comp;
\* std::sort does not say where elements that comp does not order end up
\* relative to each other, so the model inserts an element either after
\* (sortSwapsTies = FALSE) or before (TRUE) the elements equivalent to it.
RECURSIVE sortInsert(_, _, _)
sortInsert(x, s, swapTies) ==
    IF s = <<>> THEN <<x>>
    ELSE IF sortComp(x, Head(s)) \/ (swapTies /\ ~sortComp(Head(s), x))
         THEN <<x>> \o s
         ELSE <<Head(s)>> \o sortInsert(x, Tail(s), swapTies)

RECURSIVE sortFrom(_, _, _)
sortFrom(done, rest, swapTies) ==
    IF rest = <<>> THEN done
    ELSE sortFrom(sortInsert(Head(rest), done, swapTies), Tail(rest), swapTies)

\* (variant: the sort left out)
std_sortNothing(v, swapTies) == v

\* (variant: ties broken differently from one run to the next)
std_sortByRun(v, swapTies) == sortFrom(<<>>, v, swapTies # firstRun.ran)

std_sort(v, swapTies) == sortFrom(<<>>, v, swapTies)

-----------------------------------------------------------------------------
(* PFTrackProducer *)

NoRun == [ran |-> FALSE, outcome |-> "none", tracks |-> <<>>]

\* A scoring-plane collection of at most n hits, or no collection at all.
Collections(n) == {Absent} \cup {Stored(SimPass, s) : s \in SeqsUpTo(Hits, n)}

\* The events: each scoring-plane collection is absent or holds hits, at most
\* MaxHits hits in both together; nothing is stored under the output name.
EventOf(e, h) ==
    [n \in CollNames |->
        IF n \in InputNames THEN e ELSE IF n = HcalCollName THEN h ELSE Absent]

InitTS ==
    /\ pc = "constructed"
    /\ inputTrackCollName_ = ""
    /\ input_pass_name_ = ""
    /\ outputTrackCollName_ = ""
    /\ truthTracking_ \in BOOLEAN
    /\ sortSwapsTies \in BOOLEAN
    /\ \E e \in Collections(MaxHits) :
        \E h \in Collections(MaxHits - Len(e.hits)) :
            event = EventOf(e, h)
    /\ log = <<>>
    /\ reads = <<>>
    /\ outcome = "none"
    /\ pushed = [ecal |-> <<>>, hcal |-> <<>>]
    /\ firstRun = NoRun

\* PFTrackProducer::configure, lines 8-12
configure ==
    /\ pc = "constructed"
    /\ \E inName \in InputNames, passName \in PassNames, outName \in OutputNames :
        /\ inputTrackCollName_' = inName
        /\ input_pass_name_' = passName
        /\ outputTrackCollName_' = outName
    /\ pc' = "configured"
    /\ UNCHANGED <<truthTracking_, sortSwapsTies, event, log, reads, outcome,
                   pushed, firstRun>>

\* line 20: !event.exists(inputTrackCollName_)
\* (variant: the secondary collection guarded as well)
inputMissingEither ==
    ~exists(event, inputTrackCollName_) \/ ~exists(event, HcalCollName)

inputMissing == ~exists(event, inputTrackCollName_)

\* lines 30-49: pfTracks after the first loop and after the second, as what
\* each loop pushed
\* (variant: the flag not tested)
selectTracksAlways(truthTracking, ecalSpHits, hcalSpHits) ==
    LET afterEcal == selectLoop(ecalSpHits, <<>>)
        afterHcal == selectLoop(hcalSpHits, afterEcal)
    IN [ecal |-> afterEcal,
        hcal |-> SubSeq(afterHcal, Len(afterEcal) + 1, Len(afterHcal))]

selectTracks(truthTracking, ecalSpHits, hcalSpHits) ==
    LET afterEcal == IF truthTracking THEN selectLoop(ecalSpHits, <<>>) ELSE <<>>
        afterHcal == IF truthTracking THEN selectLoop(hcalSpHits, afterEcal)
                     ELSE afterEcal
    IN [ecal |-> afterEcal,
        hcal |-> SubSeq(afterHcal, Len(afterEcal) + 1, Len(afterHcal))]

\* line 54: event.add(outputTrackCollName_, pfTracks)
\* (variant: nothing added when no track was selected)
publishNonEmpty(ev, name, pfTracks) ==
    IF pfTracks = <<>> THEN ev ELSE add(ev, name, pfTracks)

publish(ev, name, pfTracks) == add(ev, name, pfTracks)

\* lines 20-23: the primary collection does not exist
\* (variant: the return after the log left out)
produceLogsAndGoesOn ==
    /\ inputMissing
    /\ log' = Append(log, "fatal")
    /\ outcome' = "published"
    /\ event' = publish(event, outputTrackCollName_, <<>>)
    /\ reads' = reads \o <<<<inputTrackCollName_, input_pass_name_>>,
                           <<HcalCollName, input_pass_name_>>>>
    /\ UNCHANGED pushed

produceMissingInput ==
    /\ inputMissing
    /\ log' = Append(log, "fatal")
    /\ outcome' = "returned"
    /\ UNCHANGED <<event, reads, pushed>>

\* lines 24-28: the primary collection is handed over (it exists), the
\* request for the secondary one raises and the exception leaves produce
produceHcalThrows ==
    /\ ~inputMissing
    /\ Returns(event[inputTrackCollName_].hits)
          \in getCollection(event, inputTrackCollName_, input_pass_name_)
    /\ Throws \in getCollection(event, HcalCollName, input_pass_name_)
    /\ reads' = reads \o <<<<inputTrackCollName_, input_pass_name_>>,
                           <<HcalCollName, input_pass_name_>>>>
    /\ outcome' = "threw"
    /\ UNCHANGED <<event, log, pushed>>

\* lines 24-54 with both collections handed over
produceTracks ==
    /\ ~inputMissing
    /\ \E ecal \in getCollection(event, inputTrackCollName_, input_pass_name_),
          hcal \in getCollection(event, HcalCollName, input_pass_name_) :
        /\ ~ecal.threw
        /\ ~hcal.threw
        /\ LET sel == selectTracks(truthTracking_, ecal.hits, hcal.hits)
               pfTracks == std_sort(sel.ecal \o sel.hcal, sortSwapsTies)
           IN /\ pushed' = sel
              /\ event' = publish(event, outputTrackCollName_, pfTracks)
    /\ reads' = reads \o <<<<inputTrackCollName_, input_pass_name_>>,
                           <<HcalCollName, input_pass_name_>>>>
    /\ outcome' = "published"
    /\ UNCHANGED log

\* PFTrackProducer::produce, lines 19-55
produce ==
    /\ pc = "configured"
    /\ \/ produceMissingInput
       \/ produceHcalThrows
       \/ produceTracks
    /\ pc' = "done"
    /\ UNCHANGED <<inputTrackCollName_, input_pass_name_, outputTrackCollName_,
                   truthTracking_, sortSwapsTies, firstRun>>

\* the collection published under the output name (empty when there is none)
published == event[outputTrackCollName_].hits

\* The framework runs the job once more on the same input event: the
\* processor is the same object, the event is the input event again.
rerun ==
    /\ pc = "done"
    /\ ~firstRun.ran
    /\ firstRun' = [ran |-> TRUE, outcome |-> outcome, tracks |-> published]
    /\ event' = [event EXCEPT ![outputTrackCollName_] = Absent]
    /\ log' = <<>>
    /\ reads' = <<>>
    /\ outcome' = "none"
    /\ pushed' = [ecal |-> <<>>, hcal |-> <<>>]
    /\ pc' = "configured"
    /\ UNCHANGED <<inputTrackCollName_, input_pass_name_, outputTrackCollName_,
                   truthTracking_, sortSwapsTies>>

-----------------------------------------------------------------------------
(* recon::ParticleFlow.  ParticleFlow.h declares the processor and its      *)
(* members; the body of produce follows section 4.2 of the design document. *)
(* Positions are one coordinate, energies and momenta are integers.         *)

MaxPFTracks == 2
MaxHadClusters == 2
MaxEmClusters == 1

\* matching criteria, the members of lines 57-59 as configure sets them:
\* the distance threshold, and the band of cluster energy / track momentum
\* as lo/den <= E/p <= hi/den
PFConfigs ==
    [tkHadCaloMatchDist_ : {1, 2},
     ratio : {[lo |-> 1, hi |-> 4, den |-> 2], [lo |-> 1, hi |-> 1, den |-> 1]}]

\* energy-correction curves eCorr_ and hCorr_ (lines 44-45): increasing maps
eCorr(e) == e + 1
hCorr(e) == 2 * e

PFTrackSet == {[p |-> p, x |-> x] : p \in {2, 4}, x \in {0, 3}}
HadClusterSet == {[e |-> e, x |-> x] : e \in {1, 4}, x \in {0, 2}}
EmClusterSet == {[e |-> e] : e \in {1, 3}}

\* hadronic clusters a track may still take: unconsumed and within the
\* distance threshold
\* (variant: consumed clusters not excluded)
hadInReachShared(tk, had, usedHad, cfg) ==
    {c \in 1..Len(had) : Abs(had[c].x - tk.x) <= cfg.tkHadCaloMatchDist_}

hadInReach(tk, had, usedHad, cfg) ==
    {c \in 1..Len(had) \ usedHad :
        Abs(had[c].x - tk.x) <= cfg.tkHadCaloMatchDist_}

\* the nearest of them (the first in collection order among equally near)
nearestHad(tk, had, usedHad, cfg) ==
    LET reach == hadInReach(tk, had, usedHad, cfg)
    IN CHOOSE c \in reach :
         \A d \in reach :
            \/ Abs(had[c].x - tk.x) < Abs(had[d].x - tk.x)
            \/ Abs(had[c].x - tk.x) = Abs(had[d].x - tk.x) /\ c <= d

\* the cluster energy lies in the plausible band around the track momentum
ratioPlausible(tk, cl, cfg) ==
    /\ cl.e * cfg.ratio.den >= cfg.ratio.lo * tk.p
    /\ cl.e * cfg.ratio.den <= cfg.ratio.hi * tk.p

PFCandidate(kind, t, h, e, energy, momentum) ==
    [kind |-> kind, track |-> t, had |-> h, em |-> e,
     energy |-> energy, momentum |-> momentum]

\* fillCandTrack / fillCandHadCalo / fillCandEMCalo (lines 39-41)
candTrackHad(t, tk, c, cl) == PFCandidate("track+had", t, c, 0, hCorr(cl.e), tk.p)
candTrack(t, tk) == PFCandidate("track", t, 0, 0, 0, tk.p)
candHad(c, cl) == PFCandidate("had", 0, c, 0, hCorr(cl.e), hCorr(cl.e))
candEm(c, cl) == PFCandidate("em", 0, 0, c, eCorr(cl.e), eCorr(cl.e))

\* tracks t..Len(tracks) in order: match each to its nearest unconsumed
\* hadronic cluster if the ratio is plausible, else emit it alone
RECURSIVE matchTracks(_, _, _, _, _, _)
matchTracks(t, tracks, had, usedHad, cands, cfg) ==
    IF t > Len(tracks) THEN [usedHad |-> usedHad, cands |-> cands]
    ELSE LET tk == tracks[t]
         IN IF hadInReach(tk, had, usedHad, cfg) # {}
               /\ ratioPlausible(tk, had[nearestHad(tk, had, usedHad, cfg)], cfg)
            THEN LET c == nearestHad(tk, had, usedHad, cfg)
                 IN matchTracks(t + 1, tracks, had, usedHad \cup {c},
                                Append(cands, candTrackHad(t, tk, c, had[c])),
                                cfg)
            ELSE matchTracks(t + 1, tracks, had, usedHad,
                             Append(cands, candTrack(t, tk)), cfg)

\* the hadronic clusters c..Len(had) that no track consumed, one
\* hadronic-only candidate each
RECURSIVE restHad(_, _, _, _)
restHad(c, had, usedHad, cands) ==
    IF c > Len(had) THEN cands
    ELSE restHad(c + 1, had, usedHad,
                 IF c \in usedHad THEN cands
                 ELSE Append(cands, candHad(c, had[c])))

\* the EM clusters c..Len(em), one EM-only candidate each (EM clusters are
\* not matched to tracks)
RECURSIVE restEm(_, _, _)
restEm(c, em, cands) ==
    IF c > Len(em) THEN cands
    ELSE restEm(c + 1, em, Append(cands, candEm(c, em[c])))

\* ParticleFlow::produce
pfCandidates(in) ==
    LET m == matchTracks(1, in.tracks, in.had, {}, <<>>, in.cfg)
        withHad == restHad(1, in.had, m.usedHad, m.cands)
    IN restEm(1, in.em, withHad)

pfProduce ==
    /\ ~pfDone
    /\ pfCands' = pfCandidates(pfInput)
    /\ pfDone' = TRUE
    /\ UNCHANGED pfInput

InitPF ==
    /\ pfInput \in [tracks : SeqsUpTo(PFTrackSet, MaxPFTracks),
                    had : SeqsUpTo(HadClusterSet, MaxHadClusters),
                    em : SeqsUpTo(EmClusterSet, MaxEmClusters),
                    cfg : PFConfigs]
    /\ pfCands = <<>>
    /\ pfDone = FALSE

\* the PFTrackProducer of the ParticleFlow runs: constructed, no event yet
TSIdle ==
    /\ pc = "constructed"
    /\ inputTrackCollName_ = ""
    /\ input_pass_name_ = ""
    /\ outputTrackCollName_ = ""
    /\ truthTracking_ = TRUE
    /\ sortSwapsTies = FALSE
    /\ event = EventOf(Absent, Absent)
    /\ log = <<>>
    /\ reads = <<>>
    /\ outcome = "none"
    /\ pushed = [ecal |-> <<>>, hcal |-> <<>>]
    /\ firstRun = NoRun

InitPFRun == TSIdle /\ InitPF

NextPF == pfProduce /\ UNCHANGED tsVars

SpecPF == InitPFRun /\ [][NextPF]_vars

-----------------------------------------------------------------------------
(* The two processors *)

PFIdle ==
    /\ pfInput = [tracks |-> <<>>, had |-> <<>>, em |-> <<>>,
                  cfg |-> CHOOSE c \in PFConfigs : TRUE]
    /\ pfCands = <<>>
    /\ pfDone = FALSE

Init == InitTS /\ PFIdle

Next ==
    \/ configure /\ UNCHANGED pfVars
    \/ produce /\ UNCHANGED pfVars
    \/ rerun /\ UNCHANGED pfVars

Spec == Init /\ [][Next]_vars

-----------------------------------------------------------------------------
(* Properties of PFTrackProducer::produce, stated on the finished run *)

\* what the event holds under the two input names
ecalIn == event[inputTrackCollName_].hits
hcalIn == event[HcalCollName].hits

Finished == pc = "done"
Published == pc = "done" /\ outcome = "published"

\* the four filters, as the design document words them
Qualifies(h) ==
    /\ h.trackID = 1
    /\ Abs(24000 - h.z) <= 10
    /\ h.momentum[3] > 0
    /\ h.pdgID \notin {22, 2112}

SomeQualifies(hits) == \E i \in 1..Len(hits) : Qualifies(hits[i])

\* the first qualifying hit of a collection, as a sequence of length 0 or 1
FirstQualifying(hits) ==
    IF SomeQualifies(hits)
    THEN LET i == CHOOSE k \in 1..Len(hits) :
                    /\ Qualifies(hits[k])
                    /\ \A j \in 1..(k - 1) : ~Qualifies(hits[j])
         IN <<hits[i]>>
    ELSE <<>>

\* squared momentum magnitude
Mag2(h) ==
    h.momentum[1] * h.momentum[1] + h.momentum[2] * h.momentum[2]
        + h.momentum[3] * h.momentum[3]

BothPushed == Len(pushed.ecal) = 1 /\ Len(pushed.hcal) = 1

\* C1: produce emits at most one track taken from the primary collection and
\* at most one taken from the secondary collection, so the published
\* collection never holds more than two tracks.
C1_AtMostOnePerRegion ==
    Finished =>
        /\ Len(pushed.ecal) <= 1
        /\ Len(pushed.hcal) <= 1
        /\ \A i \in 1..Len(pushed.ecal) :
              \E k \in 1..Len(ecalIn) : pushed.ecal[i] = ecalIn[k]
        /\ \A i \in 1..Len(pushed.hcal) :
              \E k \in 1..Len(hcalIn) : pushed.hcal[i] = hcalIn[k]
        /\ Len(published) = Len(pushed.ecal) + Len(pushed.hcal)
        /\ Len(published) <= 2

\* a region with two qualifying hits, and two tracks published
C1_Witness ==
    /\ Published
    /\ Len(published) = 2
    /\ \E i, j \in 1..Len(ecalIn) :
          i # j /\ Qualifies(ecalIn[i]) /\ Qualifies(ecalIn[j])

\* C2: every published track has track identifier 1, z within 0.1 of 240,
\* pz > 0 and a PDG id that is neither 22 nor 2112.
C2_PublishedPassFilters ==
    Finished => \A i \in 1..Len(published) : Qualifies(published[i])

\* a track published from collections that also hold a neutron and a photon
C2_Witness ==
    /\ Published
    /\ Len(published) = 1
    /\ ecalIn # <<>> /\ ecalIn[1].pdgID = 2112
    /\ hcalIn # <<>> /\ hcalIn[1].pdgID = 22

\* C3: the published collection is ordered by non-increasing momentum
\* magnitude, whichever region the tracks came from.
C3_NonIncreasingMomentum ==
    Finished =>
        \A i, j \in 1..Len(published) :
            i < j => Mag2(published[i]) >= Mag2(published[j])

\* the track of the primary region has the smaller magnitude and is
\* published second
C3_Witness ==
    /\ Published
    /\ BothPushed
    /\ Mag2(pushed.ecal[1]) < Mag2(pushed.hcal[1])
    /\ published = pushed.hcal \o pushed.ecal

\* C4: with the primary collection absent, produce logs at fatal severity and
\* returns without reading any collection and without adding one: the event
\* is left as it was.
C4_MissingPrimaryReturns ==
    [][(pc = "configured" /\ ~event[inputTrackCollName_].present) =>
          /\ log' = Append(log, "fatal")
          /\ reads' = reads
          /\ event' = event
          /\ outcome' = "returned"
          /\ pc' = "done"]_vars

\* the run has returned that way, with a qualifying hit in the secondary
\* collection and nothing published
C4_Witness ==
    /\ Finished
    /\ ~event[inputTrackCollName_].present
    /\ SomeQualifies(hcalIn)
    /\ log = <<"fatal">>
    /\ ~event[outputTrackCollName_].present

\* C5: with the truth-selection flag disabled the selection loops are
\* skipped and the emitted track sequence is empty, whatever the hits.
C5_DisabledFlagNoTracks ==
    (Published /\ ~truthTracking_) =>
        /\ pushed.ecal = <<>>
        /\ pushed.hcal = <<>>
        /\ published = <<>>
        /\ event[outputTrackCollName_].present

\* flag disabled, qualifying hits in both regions
C5_Witness ==
    /\ Published
    /\ ~truthTracking_
    /\ SomeQualifies(ecalIn)
    /\ SomeQualifies(hcalIn)

\* first and second run both published
BothRunsPublished == Published /\ firstRun.ran /\ firstRun.outcome = "published"

TiedPair == BothPushed /\ Mag2(pushed.ecal[1]) = Mag2(pushed.hcal[1])

C8_FirstQualifyingHit ==
    (Published /\ truthTracking_) =>
        /\ pushed.ecal = FirstQualifying(ecalIn)
        /\ pushed.hcal = FirstQualifying(hcalIn)
        /\ published \in {pushed.ecal \o pushed.hcal, pushed.hcal \o pushed.ecal}

\* the hit of scenario A is selected behind a hit that does not qualify and
\* before another that does
C8_Witness ==
    /\ Published
    /\ truthTracking_
    /\ Len(ecalIn) = 3
    /\ ~Qualifies(ecalIn[1])
    /\ ecalIn[2] = [trackID |-> 1, z |-> 24005, momentum |-> <<0, 0, 5>>,
                    pdgID |-> 11]
    /\ Qualifies(ecalIn[3]) /\ ecalIn[3] # ecalIn[2]
    /\ published = <<ecalIn[2]>>

BothReadable ==
    /\ event[inputTrackCollName_].present
    /\ event[HcalCollName].present

\* C9: when the primary collection exists and both can be read, produce
\* publishes one collection under the output name, of zero to two tracks; a
\* region whose hits are all rejected contributes none, raises no error and
\* leaves the other region's selection and the publication alone.
C9_AlwaysPublishes ==
    (Finished /\ BothReadable) =>
        /\ outcome = "published"
        /\ log = <<>>
        /\ {n \in CollNames : event[n].present}
              = {inputTrackCollName_, HcalCollName, outputTrackCollName_}
        /\ Len(published) \in 0..2
        /\ Len(published) = Len(pushed.ecal) + Len(pushed.hcal)
        /\ ~SomeQualifies(ecalIn) =>
              /\ pushed.ecal = <<>>
              /\ truthTracking_ => pushed.hcal = FirstQualifying(hcalIn)
        /\ ~SomeQualifies(hcalIn) =>
              /\ pushed.hcal = <<>>
              /\ truthTracking_ => pushed.ecal = FirstQualifying(ecalIn)

\* every hit of the primary region is rejected, the secondary region still
\* gives its track
C9_Witness ==
    /\ Published
    /\ truthTracking_
    /\ ecalIn # <<>>
    /\ ~SomeQualifies(ecalIn)
    /\ SomeQualifies(hcalIn)
    /\ Len(published) = 1

SecondaryMissing ==
    event[inputTrackCollName_].present /\ ~event[HcalCollName].present

\* C10: with the primary collection present and the secondary one absent,
\* produce does not take the fatal-log return; it asks the event store for
\* both collections, and the run ends as getCollection decides: with its
\* exception and nothing published, or with the tracks of the primary region.
C10_SecondaryNotGuarded ==
    (Finished /\ SecondaryMissing) =>
        /\ log = <<>>
        /\ reads = <<<<inputTrackCollName_, input_pass_name_>>,
                     <<"HcalScoringPlaneHits", input_pass_name_>>>>
        /\ outcome \in {"threw", "published"}
        /\ outcome = "threw" => ~event[outputTrackCollName_].present
        /\ outcome = "published" =>
              /\ pushed.hcal = <<>>
              /\ published = pushed.ecal

\* the request for the missing secondary collection has raised
C10_Witness ==
    /\ Finished
    /\ SecondaryMissing
    /\ SomeQualifies(ecalIn)
    /\ outcome = "threw"

-----------------------------------------------------------------------------
(* Properties of ParticleFlow::produce *)

CandIdx == 1..Len(pfCands)

\* C6: no cluster and no track feeds two candidates, and a track matched to
\* a hadronic cluster yields one combined candidate, with no track-only
\* candidate for the track and no hadronic-only candidate for the cluster.
C6_NoDoubleCounting ==
    pfDone =>
        /\ \A i, j \in CandIdx :
              i # j =>
                /\ pfCands[i].had # 0 => pfCands[i].had # pfCands[j].had
                /\ pfCands[i].em # 0 => pfCands[i].em # pfCands[j].em
                /\ pfCands[i].track # 0 => pfCands[i].track # pfCands[j].track
        /\ \A i \in CandIdx :
              pfCands[i].kind = "track+had" =>
                /\ pfCands[i].track # 0 /\ pfCands[i].had # 0
                /\ \A j \in CandIdx :
                      /\ pfCands[j].kind = "track" =>
                            pfCands[j].track # pfCands[i].track
                      /\ pfCands[j].kind = "had" =>
                            pfCands[j].had # pfCands[i].had

\* one track took the only hadronic cluster; a second track, as near to it
\* and as plausible, is emitted alone
C6_Witness ==
    /\ pfDone
    /\ Len(pfInput.had) = 1
    /\ Len(pfInput.tracks) = 2
    /\ pfInput.tracks[1] = pfInput.tracks[2]
    /\ \E i, j \in CandIdx :
          /\ pfCands[i].kind = "track+had" /\ pfCands[i].track = 1
          /\ pfCands[j].kind = "track" /\ pfCands[j].track = 2

====
